---- MODULE Spec2Model ----
(***************************************************************************)
(* Model of PyQt5_Photo_Editor_toplu.py: the ImageDocument of the current  *)
(* tab (pil, history, adjustments) and the handlers of PhotoEditorMain     *)
(* that act on it.                                                         *)
(*                                                                         *)
(* An image is a sequence of rows (top to bottom), a row a sequence of     *)
(* pixels, a pixel <<r, g, b>> with 8-bit channels.  Floating point values *)
(* of the preview pipeline are kept in fixed point: channel values in      *)
(* hundredths of a level (0 .. 25500), gains and the unit interval in      *)
(* ten-thousandths.                                                        *)
(***************************************************************************)
EXTENDS Integers, Sequences, FiniteSets, TLC

Min(a, b) == IF a < b THEN a ELSE b
Max(a, b) == IF a > b THEN a ELSE b
Abs(a) == IF a < 0 THEN 0 - a ELSE a
Last(s) == s[Len(s)]
Front(s) == SubSeq(s, 1, Len(s) - 1)

Width(img) == Len(img[1])
Height(img) == Len(img)

\* A new image of the same size, pixel (x, y) computed by F from the old one.
MapPixels(img, F(_)) ==
    [y \in 1..Height(img) |-> [x \in 1..Width(img) |-> F(img[y][x])]]

\* Saturating store into an 8-bit channel.
Sat8(v) == IF v < 0 THEN 0 ELSE IF v > 255 THEN 255 ELSE v

(***************************************************************************)
(* kelvin_to_rgb_gains.  math.log and ** are tabulated (ten-thousandths)   *)
(* at the arguments the slider values of the model produce; the branches,  *)
(* coefficients and clamps are those of the function.  The result is       *)
(* <<r, g, b>> / 255 in ten-thousandths.                                   *)
(***************************************************************************)
LogE4(x) ==
    CASE x = 10 -> 23026
      [] x = 20 -> 29957
      [] x = 30 -> 34012
      [] x = 55 -> 40073
      [] x = 65 -> 41744
      [] x = 66 -> 41897

\* (temp - 60) ** -0.1332047592
PowRedE4(x) ==
    CASE x = 40 -> 6118

\* (temp - 60) ** -0.0755148492
PowGreenE4(x) ==
    CASE x = 40 -> 7569

\* clamp(v, lo=0, hi=255) on a value in ten-thousandths of a level
clamp(v) == Max(0, Min(2550000, v))

kelvin_to_rgb_gains(kelvin) ==
    LET temp == kelvin \div 100
        r == IF temp <= 66 THEN 2550000
             ELSE clamp((32970 * PowRedE4(temp - 60)) \div 100)
        g == clamp(IF temp <= 66
                   THEN (9947 * LogE4(temp)) \div 100 - 1611196
                   ELSE (28812 * PowGreenE4(temp - 60)) \div 100)
        b == IF temp >= 66 THEN 2550000
             ELSE IF temp <= 19 THEN 0
             ELSE clamp((13852 * LogE4(temp - 10)) \div 100 - 3050448)
    IN  <<r \div 255, g \div 255, b \div 255>>

(***************************************************************************)
(* apply_adjustments_preview: the pipeline on one pixel, in hundredths.    *)
(***************************************************************************)
\* np.clip(v, 0, 255)
Clip(v) == Max(0, Min(25500, v))

\* tone_pixel(a, shadows, highlights)
tone_pixel(a, shadows, highlights) ==
    LET t0 == (a * 100) \div 255
        w  == Min(10000, Max(0, (t0 * 10) \div 6))
        t1 == IF shadows # 0
              THEN t0 + (6 * shadows * (((10000 - w) * (10000 - t0)) \div 10000)) \div 1000
              ELSE t0
        w2 == Min(10000, Max(0, ((t1 - 4000) * 10) \div 6))
        t2 == IF highlights # 0
              THEN t1 - (6 * highlights * ((w2 * t1) \div 10000)) \div 1000
              ELSE t1
    IN  Clip((t2 * 255) \div 100)

AdjustPixel(p, ad) ==
    LET gains == kelvin_to_rgb_gains(ad.kelvin)
        wb == [i \in 1..3 |-> Clip((p[i] * 100 * gains[i]) \div 10000)]
        br == [i \in 1..3 |-> Clip(wb[i] + 100 * ad.brightness)]
        co == [i \in 1..3 |-> Clip(((br[i] - 12800) * (100 + ad.contrast)) \div 100 + 12800)]
        lum == (2126 * co[1] + 7152 * co[2] + 722 * co[3]) \div 10000
        sa == IF ad.saturation # 0
              THEN [i \in 1..3 |-> Clip(lum + ((co[i] - lum) * (100 + ad.saturation)) \div 100)]
              ELSE co
        to == IF ad.shadows # 0 \/ ad.highlights # 0
              THEN [i \in 1..3 |-> tone_pixel(sa[i], ad.shadows, ad.highlights)]
              ELSE sa
    IN  <<to[1] \div 100, to[2] \div 100, to[3] \div 100>>

\* The image apply_adjustments_preview stores in doc.pil.
Preview(base, ad) == [y \in 1..Height(base) |-> [x \in 1..Width(base) |-> AdjustPixel(base[y][x], ad)]]

(***************************************************************************)
(* Library filters the effects call, on the image grid.                    *)
(***************************************************************************)
\* C integer division (truncation towards zero).
TruncDiv(a, b) == IF a >= 0 THEN a \div b ELSE 0 - ((0 - a) \div b)

\* Border handling: edge replication, and OpenCV's BORDER_REFLECT_101.
Replicate(i, n) == Max(1, Min(n, i))
Reflect101(i, n) ==
    IF n = 1 THEN 1
    ELSE LET m == (i - 1) % (2 * (n - 1))
         IN  IF m < n THEN m + 1 ELSE 2 * (n - 1) - m + 1

RECURSIVE SumSeq(_)
SumSeq(s) == IF s = <<>> THEN 0 ELSE s[1] + SumSeq(Tail(s))

RECURSIVE SetToSeq(_)
SetToSeq(S) == IF S = {} THEN <<>>
               ELSE LET e == CHOOSE e \in S : TRUE IN <<e>> \o SetToSeq(S \ {e})

\* Offsets of the 3x3 window, and of the disc of each radius bilateralFilter uses.
Square1 == SetToSeq((0 - 1 .. 1) \X (0 - 1 .. 1))
Disc == [radius \in 0..4 |->
            SetToSeq({o \in (0 - radius .. radius) \X (0 - radius .. radius) :
                         o[1] * o[1] + o[2] * o[2] <= radius * radius})]

\* 1000 * exp(-x) for x >= 0 in hundredths, by the series of exp(x) to the
\* fourth power; nothing is left of it from x = 10 on.
ExpNegE3(x100) ==
    IF x100 >= 1000 THEN 0
    ELSE LET t2 == (x100 * x100) \div 200
             t3 == (t2 * x100) \div 300
             t4 == (t3 * x100) \div 400
         IN  100000 \div (100 + x100 + t2 + t3 + t4)

\* Gaussian blur of radius 1 (ImageFilter.UnsharpMask's blur), as the 3x3
\* binomial kernel with replicated edges.
GaussKernel(o) == (2 - Abs(o[1])) * (2 - Abs(o[2]))
GaussianBlur1(img) ==
    LET w == Width(img)
        h == Height(img)
        win == Square1
        At(x, y, c) ==
            (SumSeq([k \in 1..Len(win) |->
                GaussKernel(win[k]) * img[Replicate(y + win[k][2], h)][Replicate(x + win[k][1], w)][c]]) + 8) \div 16
    IN  [y \in 1..h |-> [x \in 1..w |-> <<At(x, y, 1), At(x, y, 2), At(x, y, 3)>>]]

\* ImageFilter.UnsharpMask(radius=1, percent, threshold)
UnsharpMask(img, percent, threshold) ==
    LET blur == GaussianBlur1(img)
        Ch(v, b) == IF Abs(v - b) > threshold THEN Sat8(v + TruncDiv((v - b) * percent, 100)) ELSE v
    IN  [y \in 1..Height(img) |-> [x \in 1..Width(img) |->
            [c \in 1..3 |-> Ch(img[y][x][c], blur[y][x][c])]]]

\* ImageFilter.SMOOTH: 3x3 kernel (1,1,1, 1,5,1, 1,1,1) / 13; the one-pixel
\* border of the image is copied unchanged.
SmoothKernel(o) == IF o = <<0, 0>> THEN 5 ELSE 1
Smooth(img) ==
    LET w == Width(img)
        h == Height(img)
        win == Square1
        At(x, y, c) ==
            IF x = 1 \/ x = w \/ y = 1 \/ y = h THEN img[y][x][c]
            ELSE Sat8((2 * SumSeq([k \in 1..Len(win) |->
                     SmoothKernel(win[k]) * img[y + win[k][2]][x + win[k][1]][c]]) + 13) \div 26)
    IN  [y \in 1..h |-> [x \in 1..w |-> <<At(x, y, 1), At(x, y, 2), At(x, y, 3)>>]]

\* Image.blend(degenerate, image, factor), factor in hundredths: the value
\* ImageEnhance._Enhance.enhance returns.
Blend(degenerate, img, factor100) ==
    [y \in 1..Height(img) |-> [x \in 1..Width(img) |-> [c \in 1..3 |->
        Sat8((100 * degenerate[y][x][c]
              + factor100 * (img[y][x][c] - degenerate[y][x][c])) \div 100)]]]

\* ImageEnhance.Brightness: the degenerate image is black.
EnhanceBrightness(img, factor100) == Blend(MapPixels(img, LAMBDA p : <<0, 0, 0>>), img, factor100)

\* ImageEnhance.Sharpness: the degenerate image is the smoothed one.
EnhanceSharpness(img, factor100) == Blend(Smooth(img), img, factor100)

\* ImageEnhance.Contrast: the degenerate image is the mean grey of convert('L').
Luma8(p) == (p[1] * 19595 + p[2] * 38470 + p[3] * 7471 + 32768) \div 65536
EnhanceContrast(img, factor100) ==
    LET n == Width(img) * Height(img)
        total == SumSeq([y \in 1..Height(img) |-> SumSeq([x \in 1..Width(img) |-> Luma8(img[y][x])])])
        mean == (2 * total + n) \div (2 * n)
    IN  Blend(MapPixels(img, LAMBDA p : <<mean, mean, mean>>), img, factor100)

\* cv2.bilateralFilter(a, d, sigmaColor, sigmaSpace): weights fall off with
\* the distance in the window (a disc of radius d / 2) and with the L1 colour
\* distance; the border is BORDER_REFLECT_101.
bilateralFilter(img, d, sigmaColor, sigmaSpace) ==
    LET w == Width(img)
        h == Height(img)
        win == Disc[d \div 2]
        space == [k \in 1..Len(win) |->
                     ExpNegE3(((win[k][1] * win[k][1] + win[k][2] * win[k][2]) * 100)
                              \div (2 * sigmaSpace * sigmaSpace))]
        Delta(p, q) == Abs(p[1] - q[1]) + Abs(p[2] - q[2]) + Abs(p[3] - q[3])
        At(x, y) ==
            LET nb == [k \in 1..Len(win) |->
                          img[Reflect101(y + win[k][2], h)][Reflect101(x + win[k][1], w)]]
                wt == [k \in 1..Len(win) |->
                          (space[k] * ExpNegE3((Delta(img[y][x], nb[k]) * Delta(img[y][x], nb[k]) * 100)
                                               \div (2 * sigmaColor * sigmaColor))) \div 1000]
                ws == SumSeq(wt)
            IN  [c \in 1..3 |-> (2 * SumSeq([k \in 1..Len(win) |-> wt[k] * nb[k][c]]) + ws) \div (2 * ws)]
    IN  [y \in 1..h |-> [x \in 1..w |-> At(x, y)]]

\* Integer square root by bisection.
RECURSIVE Bisect(_, _, _)
Bisect(n, lo, hi) ==
    IF lo >= hi THEN lo
    ELSE LET mid == (lo + hi + 1) \div 2
         IN  IF mid * mid <= n THEN Bisect(n, mid, hi) ELSE Bisect(n, lo, mid - 1)
ISqrt(n) == Bisect(n, 0, 2000)

\* np.linspace(-1, 1, n)[i], in thousandths (i from 0).
Linspace(i, n) == IF n = 1 THEN 0 - 1000 ELSE (2000 * i) \div (n - 1) - 1000

(***************************************************************************)
(* The effects of apply_effect, rotate90, flip_horizontal, portrait_mode   *)
(* and auto_enhance, as functions of the image they are given.             *)
(***************************************************************************)
Sharpen(img) == UnsharpMask(img, 120, 3)
Orange(img) == MapPixels(img, LAMBDA p : <<Min(255, p[1] + 12), Min(255, p[2] + 6), p[3]>>)
Red(img) == MapPixels(img, LAMBDA p : <<Min(255, p[1] + 18), p[2], p[3]>>)
Blue(img) == MapPixels(img, LAMBDA p : <<p[1], p[2], Min(255, p[3] + 18)>>)
Brighten(img) == EnhanceBrightness(img, 115)
Clarity(img) == EnhanceSharpness(img, 120)
Vignette(img) ==
    LET w == Width(img)
        h == Height(img)
        Mask(x, y) ==
            LET xv == Linspace(x - 1, w)
                yv == Linspace(y - 1, h)
                m == Max(0, Min(1000, 1000 - ISqrt((xv * xv + yv * yv) \div 2)))
            IN  600 + (4 * m) \div 10
    IN  [y \in 1..h |-> [x \in 1..w |-> [c \in 1..3 |-> (img[y][x][c] * Mask(x, y)) \div 1000]]]
Noise(img) == bilateralFilter(img, 5, 75, 75)

\* img.rotate(-90, expand=True): a quarter turn clockwise, width and height swap.
Rotate(img) ==
    [y \in 1..Width(img) |-> [x \in 1..Height(img) |-> img[Height(img) + 1 - x][y]]]

\* ImageOps.mirror
Mirror(img) ==
    [y \in 1..Height(img) |-> [x \in 1..Width(img) |-> img[y][Width(img) + 1 - x]]]

\* The rectangle a[y:y+h, x:x+w] of an image, and the image with it replaced.
Crop(img, f) == [y \in 1..f.h |-> [x \in 1..f.w |-> img[f.y + y][f.x + x]]]
Paste(img, f, roi) ==
    [y \in 1..Height(img) |-> [x \in 1..Width(img) |->
        IF y > f.y /\ y <= f.y + f.h /\ x > f.x /\ x <= f.x + f.w
        THEN roi[y - f.y][x - f.x] ELSE img[y][x]]]

\* cv2.addWeighted(roi, 0.6, blurred, 0.4, 0)
addWeighted(roi, blurred) ==
    [y \in 1..Height(roi) |-> [x \in 1..Width(roi) |-> [c \in 1..3 |->
        Sat8((6 * roi[y][x][c] + 4 * blurred[y][x][c] + 5) \div 10)]]]

RECURSIVE BlendFaces(_, _)
BlendFaces(a, faces) ==
    IF faces = <<>> THEN a
    ELSE LET roi == Crop(a, faces[1])
         IN  BlendFaces(Paste(a, faces[1], addWeighted(roi, bilateralFilter(roi, 9, 75, 75))),
                        Tail(faces))

\* The image portrait_mode computes from doc.pil and the detected faces.
Portrait(img, faces) ==
    LET a == MapPixels(img, LAMBDA p :
                 <<(p[1] * 95) \div 100, Min(255, (p[2] * 105) \div 100), Min(255, (p[3] * 105) \div 100)>>)
    IN  IF Len(faces) > 0 THEN BlendFaces(a, faces) ELSE bilateralFilter(a, 9, 75, 75)

\* The image auto_enhance computes from doc.pil.
AutoEnhance(img) == EnhanceBrightness(EnhanceContrast(img, 108), 106)

(***************************************************************************)
(* Inputs of the model.                                                    *)
(***************************************************************************)
\* History entries a document may hold before the effect buttons are no
\* longer pressed.
MaxHist == 2

None == "None"

\* The files the open dialog can return; Image.open raises on those that do
\* not decode, and Image.open(p).convert('RGB') yields Decode(p) for the others.
Files == {"a.png", "b.png", "bad.png"}
Decodable(p) == p \in {"a.png", "b.png"}
Decode(p) ==
    CASE p = "a.png" -> << << <<201, 122, 43>>, <<34, 67, 251>> >> >>
      [] p = "b.png" -> << << <<255, 255, 255>> >>, << <<12, 12, 12>> >> >>

\* The most tabs open at once, and the most files selected in one dialog.
MaxTabs == 3
MaxBatch == 2

\* The selections of load_images' dialog: the sequences of at most n files.
RECURSIVE Selections(_)
Selections(n) ==
    IF n = 0 THEN {<<>>}
    ELSE Selections(n - 1) \cup {Append(ps, f) : ps \in Selections(n - 1), f \in Files}

\* What bulk_export's folder dialog returns.
Folders == {None, "out"}

\* No image: doc.pil and doc.history while no document exists.
NoImage == <<>>

\* on_slider's mapping from slider titles (in ASCII) to adjustment keys.
mapping ==
    [t \in {"Parlaklik", "Kontrast", "Doygunluk", "Beyaz Dengesi (K)", "Shadows", "Highlights"} |->
        CASE t = "Parlaklik" -> "brightness"
          [] t = "Kontrast" -> "contrast"
          [] t = "Doygunluk" -> "saturation"
          [] t = "Beyaz Dengesi (K)" -> "kelvin"
          [] t = "Shadows" -> "shadows"
          [] t = "Highlights" -> "highlights"]

\* ImageDocument.__init__'s adjustments, which reset_adjustments restores.
DefaultAdjustments ==
    [brightness |-> 0, contrast |-> 0, saturation |-> 0,
     kelvin |-> 6500, shadows |-> 0, highlights |-> 0]

\* The positions each slider is moved to.
SliderValues(key) ==
    CASE key = "brightness" -> {0, 40}
      [] key = "contrast" -> {0}
      [] key = "saturation" -> {0}
      [] key = "kelvin" -> {6500, 3000}
      [] key = "shadows" -> {0}
      [] key = "highlights" -> {0}

\* The range each adjustment is declared with (ImageDocument.__init__'s
\* comments, add_slider's arguments).
Range(key) == IF key = "kelvin" THEN 2000..10000 ELSE (0 - 100)..100

\* Values on_slider is called with when its caller does not keep to the
\* declared ranges: the default of each key, and values outside its range.
UncheckedValues(key) ==
    CASE key = "brightness" -> {0, 150}
      [] key = "contrast" -> {0, 0 - 150}
      [] key = "saturation" -> {0, 150}
      [] key = "kelvin" -> {6500, 1000, 0}
      [] key = "shadows" -> {0, 150}
      [] key = "highlights" -> {0, 0 - 150}

\* The effect names the buttons pass to apply_effect.
Effects == {"sharpen", "orange", "red", "blue", "brighten", "clarity", "vignette", "noise"}

\* What face_cascade.detectMultiScale may return for an image: nothing, or
\* one rectangle (here the whole frame).
FaceChoices(img) == {<<>>, <<[x |-> 0, y |-> 0, w |-> Width(img), h |-> Height(img)]>>}

(***************************************************************************)
(* State: the ImageDocument of the current tab.                            *)
(***************************************************************************)
VARIABLES
    path,         \* doc.path; None while no tab is open (current_doc() is None)
    pil,          \* doc.pil, the image shown
    history,      \* doc.history
    adjustments,  \* doc.adjustments
    handler,      \* the handler that ran last
    effect,       \* apply_effect's argument when it ran last, else None
    ok,           \* what doc.undo() returned when undo ran last
    raised,       \* the exception the last handler let escape, None if it returned
    tabs_docs,    \* self.tabs_docs: the documents of the open tabs, in order
    paths,        \* the files last selected in load_images' dialog
    warnings,     \* the files load_images last reported as not opened
    written,      \* the files bulk_export last wrote: <<index, name, image>>
    unwritable,   \* the tab indices whose destination could not be written then
    folder        \* the folder chosen in bulk_export's dialog, None if it was cancelled

\* The variables of the batch handlers. The handlers of a single document
\* follow the current tab only and leave them alone.
batch == <<tabs_docs, paths, warnings, written, unwritable, folder>>

vars == <<path, pil, history, adjustments, handler, effect, ok, raised, batch>>

Init ==
    /\ path = None
    /\ pil = NoImage
    /\ history = <<>>
    /\ adjustments = DefaultAdjustments
    /\ handler = None
    /\ effect = None
    /\ ok = FALSE
    /\ raised = None
    /\ tabs_docs = <<>>
    /\ paths = <<>>
    /\ warnings = <<>>
    /\ written = <<>>
    /\ unwritable = {}
    /\ folder = None

current_doc == path # None

\* Mutant of push: the snapshot replaces the last entry.
push_overwrites(h, img) == [h EXCEPT ![Len(h)] = img]

\* ImageDocument.push: the history with a copy of the image appended.
push(h, img) == Append(h, img)

\* ImageDocument.reset_adjustments
doc_reset_adjustments(ad) == [k \in DOMAIN ad |-> IF k = "kelvin" THEN 6500 ELSE 0]

\* load_images, for one selected file: a file that does not decode is
\* reported and skipped, any other gets an ImageDocument in a new current tab.
load_images(p) ==
    /\ ~current_doc
    /\ handler' = "load_images"
    /\ effect' = None
    /\ raised' = None
    /\ UNCHANGED batch
    /\ IF ~Decodable(p)
       THEN UNCHANGED <<path, pil, history, adjustments, ok>>
       ELSE /\ path' = p
            /\ pil' = Decode(p)
            /\ history' = <<Decode(p)>>
            /\ adjustments' = DefaultAdjustments
            /\ UNCHANGED ok

\* close_tab, answered Yes: the tab and its document are dropped.
close_tab ==
    /\ current_doc
    /\ path' = None
    /\ pil' = NoImage
    /\ history' = <<>>
    /\ adjustments' = DefaultAdjustments
    /\ handler' = "close_tab"
    /\ effect' = None
    /\ raised' = None
    /\ UNCHANGED batch
    /\ UNCHANGED ok

\* ImageDocument.__init__: the document of a decoded file.
ImageDocument(p, im) ==
    [path |-> p, pil |-> im, history |-> <<im>>, adjustments |-> DefaultAdjustments]

Undecodable(p) == ~Decodable(p)

\* load_images' loop over the selected files, from file i on: a file that does
\* not open is reported and skipped (continue), any other gets a tab.
RECURSIVE LoadLoop(_, _, _, _)
LoadLoop(ps, i, docs, warns) ==
    IF i > Len(ps) THEN [docs |-> docs, warns |-> warns]
    ELSE IF ~Decodable(ps[i])
         THEN LoadLoop(ps, i + 1, docs, Append(warns, ps[i]))
         ELSE LoadLoop(ps, i + 1, Append(docs, ImageDocument(ps[i], Decode(ps[i]))), warns)

\* load_images, for the files selected in the dialog (none: it returns). Each
\* add_tab makes its tab current, so the last file opened is the current one.
load_images_paths(ps) ==
    /\ Len(tabs_docs) + Len(ps) <= MaxTabs
    /\ LET r == LoadLoop(ps, 1, tabs_docs, <<>>)
       IN /\ tabs_docs' = r.docs
          /\ warnings' = r.warns
          /\ IF Len(r.docs) = Len(tabs_docs)
             THEN UNCHANGED <<path, pil, history, adjustments>>
             ELSE /\ path' = Last(r.docs).path
                  /\ pil' = Last(r.docs).pil
                  /\ history' = Last(r.docs).history
                  /\ adjustments' = Last(r.docs).adjustments
    /\ paths' = ps
    /\ handler' = "load_images"
    /\ effect' = None
    /\ raised' = None
    /\ UNCHANGED <<ok, written, unwritable, folder>>

\* What bulk_export writes for tab i: the file processed_<i>_<basename> with
\* the image the document shows. Every document has a path, so the resim_<i>
\* name is never used.
Saved(i, doc) == [index |-> i, name |-> doc.path, image |-> doc.pil]

\* bulk_export's loop over the tabs, from tab i on: doc.pil.save(dst) raises
\* when the destination cannot be written, and nothing catches it.
RECURSIVE SaveLoop(_, _, _, _)
SaveLoop(docs, i, ro, out) ==
    IF i > Len(docs) THEN [written |-> out, raised |-> None]
    ELSE IF i \in ro
         THEN [written |-> out, raised |-> "OSError"]
         ELSE SaveLoop(docs, i + 1, ro, Append(out, Saved(i, docs[i])))

\* bulk_export: without tabs or without a folder it returns; else it saves
\* tab after tab. ro holds the tabs whose destination cannot be written.
\* A cancelled export leaves no record of an earlier one.
bulk_export(dir) ==
    /\ IF tabs_docs = <<>> \/ dir = None
       THEN /\ written' = <<>>
            /\ unwritable' = {}
            /\ folder' = None
            /\ raised' = None
       ELSE \E ro \in SUBSET (1..Len(tabs_docs)) :
                LET r == SaveLoop(tabs_docs, 1, ro, <<>>)
                IN /\ written' = r.written
                   /\ unwritable' = ro
                   /\ folder' = dir
                   /\ raised' = r.raised
    /\ handler' = "bulk_export"
    /\ effect' = None
    /\ UNCHANGED <<path, pil, history, adjustments, ok, tabs_docs, paths, warnings>>

\* Mutant of PreviewBase: the pipeline starts from the image shown.
PreviewBaseShown(h, shown) == shown

\* The baseline apply_adjustments_preview starts from: base = doc.history[-1]
PreviewBase(h, shown) == Last(h)

\* Mutant of PreviewHistory: the preview is pushed.
PreviewHistoryPushed(h, img) == Append(h, img)

\* The history after apply_adjustments_preview has stored the preview img in
\* doc.pil: it is not pushed.
PreviewHistory(h, img) == h

\* kelvin_to_rgb_gains raises ValueError where math.log(temp) is taken of a
\* temp = kelvin / 100 that is not positive.
PreviewRaises(ad) == ad.kelvin <= 0

\* on_slider followed by apply_adjustments_preview; where the pipeline raises,
\* the value is stored already and doc.pil is not written.
on_slider(name, value) ==
    /\ current_doc
    /\ name \in DOMAIN mapping
    /\ adjustments' = [adjustments EXCEPT ![mapping[name]] = value]
    /\ IF PreviewRaises(adjustments')
       THEN /\ raised' = "ValueError"
            /\ UNCHANGED <<pil, history>>
       ELSE /\ raised' = None
            /\ pil' = Preview(PreviewBase(history, pil), adjustments')
            /\ history' = PreviewHistory(history, pil')
    /\ handler' = "on_slider"
    /\ effect' = None
    /\ UNCHANGED batch
    /\ UNCHANGED <<path, ok>>

\* The image an effect of apply_effect makes of img.
EffectImage(e, img) ==
    CASE e = "sharpen" -> Sharpen(img)
      [] e = "orange" -> Orange(img)
      [] e = "red" -> Red(img)
      [] e = "blue" -> Blue(img)
      [] e = "brighten" -> Brighten(img)
      [] e = "clarity" -> Clarity(img)
      [] e = "vignette" -> Vignette(img)
      [] e = "noise" -> Noise(img)

\* Mutant of EffectInput: the effects start from the baseline.
EffectInputBaseline(h, shown) == Last(h)

\* The image the effects start from: img = doc.pil.copy()
EffectInput(h, shown) == shown

\* The adjustments after apply_effect.
EffectAdjustments(ad) == doc_reset_adjustments(ad)

apply_effect(e) ==
    /\ current_doc
    /\ Len(history) < MaxHist
    /\ e \in Effects
    /\ pil' = EffectImage(e, EffectInput(history, pil))
    /\ history' = push(history, pil')
    /\ adjustments' = EffectAdjustments(adjustments)
    /\ handler' = "apply_effect"
    /\ effect' = e
    /\ raised' = None
    /\ UNCHANGED batch
    /\ UNCHANGED <<path, ok>>

rotate90 ==
    /\ current_doc
    /\ Len(history) < MaxHist
    /\ pil' = Rotate(pil)
    /\ history' = push(history, pil')
    /\ handler' = "rotate90"
    /\ effect' = None
    /\ raised' = None
    /\ UNCHANGED batch
    /\ UNCHANGED <<path, adjustments, ok>>

flip_horizontal ==
    /\ current_doc
    /\ Len(history) < MaxHist
    /\ pil' = Mirror(pil)
    /\ history' = push(history, pil')
    /\ handler' = "flip_horizontal"
    /\ effect' = None
    /\ raised' = None
    /\ UNCHANGED batch
    /\ UNCHANGED <<path, adjustments, ok>>

portrait_mode ==
    /\ current_doc
    /\ Len(history) < MaxHist
    /\ \E faces \in FaceChoices(pil) : pil' = Portrait(pil, faces)
    /\ history' = push(history, pil')
    /\ handler' = "portrait_mode"
    /\ effect' = None
    /\ raised' = None
    /\ UNCHANGED batch
    /\ UNCHANGED <<path, adjustments, ok>>

auto_enhance ==
    /\ current_doc
    /\ Len(history) < MaxHist
    /\ pil' = AutoEnhance(pil)
    /\ history' = push(history, pil')
    /\ handler' = "auto_enhance"
    /\ effect' = None
    /\ raised' = None
    /\ UNCHANGED batch
    /\ UNCHANGED <<path, adjustments, ok>>

\* Mutant of doc_undo: the last entry is popped whatever the length.
doc_undo_no_floor(h, shown) ==
    <<TRUE, Front(h), IF Len(h) > 1 THEN Last(Front(h)) ELSE shown>>

\* Mutant of doc_undo: the entry is popped and the image shown stays.
doc_undo_keeps_shown(h, shown) ==
    IF Len(h) > 1 THEN <<TRUE, Front(h), shown>> ELSE <<FALSE, h, shown>>

\* ImageDocument.undo: <<returned value, history, pil>>
doc_undo(h, shown) ==
    IF Len(h) > 1 THEN <<TRUE, Front(h), Last(Front(h))>> ELSE <<FALSE, h, shown>>

\* The adjustments after undo.
UndoAdjustments(ad) == ad

undo ==
    /\ current_doc
    /\ ok' = doc_undo(history, pil)[1]
    /\ history' = doc_undo(history, pil)[2]
    /\ pil' = doc_undo(history, pil)[3]
    /\ adjustments' = UndoAdjustments(adjustments)
    /\ handler' = "undo"
    /\ effect' = None
    /\ raised' = None
    /\ UNCHANGED batch
    /\ UNCHANGED path

reset_adjustments ==
    /\ current_doc
    /\ adjustments' = doc_reset_adjustments(adjustments)
    /\ pil' = Last(history)
    /\ handler' = "reset_adjustments"
    /\ effect' = None
    /\ raised' = None
    /\ UNCHANGED batch
    /\ UNCHANGED <<path, history, ok>>

Next ==
    \/ \E p \in Files : load_images(p)
    \/ close_tab
    \/ \E name \in DOMAIN mapping : \E value \in SliderValues(mapping[name]) : on_slider(name, value)
    \/ \E e \in Effects : apply_effect(e)
    \/ rotate90
    \/ flip_horizontal
    \/ portrait_mode
    \/ auto_enhance
    \/ undo
    \/ reset_adjustments

Spec == Init /\ [][Next]_vars

\* The document under slider values of any size: load, slider changes, reset
\* and close.
NextRange ==
    \/ \E p \in Files : load_images(p)
    \/ close_tab
    \/ \E name \in DOMAIN mapping : \E value \in UncheckedValues(mapping[name]) : on_slider(name, value)
    \/ reset_adjustments

SpecRange == Init /\ [][NextRange]_vars

\* The tabs under batch load and batch export.
NextBatch ==
    \/ \E ps \in Selections(MaxBatch) : load_images_paths(ps)
    \/ \E dir \in Folders : bulk_export(dir)

SpecBatch == Init /\ [][NextBatch]_vars

(***************************************************************************)
(* Properties.                                                             *)
(***************************************************************************)
\* The handlers that commit a destructive operator of the catalog.
CommitHandlers == {"apply_effect", "rotate90", "flip_horizontal", "portrait_mode"}

\* The images the operator of a commit handler can make of img.
OperatorResults(hd, e, img) ==
    CASE hd = "apply_effect" -> {EffectImage(e, img)}
      [] hd = "rotate90" -> {Rotate(img)}
      [] hd = "flip_horizontal" -> {Mirror(img)}
      [] hd = "portrait_mode" -> {Portrait(img, f) : f \in FaceChoices(img)}
      [] hd = "auto_enhance" -> {AutoEnhance(img)}

\* C1: while a document exists its history has at least one entry, and the
\* first entry is the image the document was loaded with.
HistoryKeepsOriginal ==
    current_doc => Len(history) >= 1 /\ history[1] = Decode(path)

\* C1 witness: undo was refused at the floor of one entry, the original.
UndoRefusedAtOriginal ==
    /\ handler = "undo"
    /\ ~ok
    /\ history = <<Decode(path)>>

\* C2: the image shown is history.last when the adjustments are at their
\* defaults, and the pipeline's output for (history.last, adjustments) otherwise.
ShownIsFunctionOfBaseline ==
    current_doc =>
        pil = IF adjustments = DefaultAdjustments
              THEN Last(history)
              ELSE Preview(Last(history), adjustments)

CommitAppendsOne ==
    [][(current_doc /\ handler' \in CommitHandlers)
        => /\ Len(history') = Len(history) + 1
           /\ SubSeq(history', 1, Len(history)) = history]_vars

\* C4 witness: a commit was made while a preview was pending (the adjustments
\* it left in place show it), on top of the original.
CommittedWhilePending ==
    /\ handler \in CommitHandlers
    /\ adjustments # DefaultAdjustments
    /\ Len(history) = 2
    /\ history[1] = Decode(path)

\* C5: right after a commit the adjustments are the defaults.
CommitResetsAdjustments ==
    handler \in CommitHandlers => adjustments = DefaultAdjustments

\* C6: undo on a one-entry history returns false and leaves the history as it
\* is; on a longer one it returns true, drops exactly the last entry and shows
\* the new last entry.
UndoContract ==
    [][(current_doc /\ handler' = "undo")
        => IF Len(history) = 1
           THEN ~ok' /\ history' = history
           ELSE ok' /\ history' = Front(history) /\ pil' = Last(history')]_vars

\* C6 witness: an undo succeeded on a document with a pending adjustment.
UndoSucceeded ==
    /\ handler = "undo"
    /\ ok
    /\ adjustments # DefaultAdjustments
    /\ pil = Last(history)

\* C7: right after a successful undo the adjustments are the defaults.
UndoResetsAdjustments ==
    (handler = "undo" /\ ok) => adjustments = DefaultAdjustments

\* C8: a slider change leaves the history, entry for entry, as it was (and
\* with it the document's path and the last undo result).
SliderKeepsHistory ==
    [][handler' = "on_slider" => history' = history /\ path' = path /\ ok' = ok]_vars

\* C8 witness: a slider was moved on a document with a committed effect and
\* the image shown is no longer the baseline.
SliderMovedAfterCommit ==
    /\ handler = "on_slider"
    /\ Len(history) = 2
    /\ pil # Last(history)

\* C9: after a slider change the image shown is the pipeline's output for
\* history.last and the adjustments now in force, whatever changes came before.
SliderPreviewPathIndependent ==
    handler = "on_slider" => pil = Preview(Last(history), adjustments)

\* C9 witness: two sliders are away from their defaults (reached in either
\* order) after a slider change.
TwoSlidersMoved ==
    /\ handler = "on_slider"
    /\ adjustments.brightness # 0
    /\ adjustments.kelvin # 6500

\* C10: with every adjustment at its default the pipeline returns the baseline.
PreviewIdentityAtDefaults ==
    (handler = "on_slider" /\ adjustments = DefaultAdjustments) => pil = Last(history)

\* C11: the adjustments of a document are always within their declared
\* ranges, whatever value a slider change was given, and no slider change
\* lets an error escape.
AdjustmentsStayInRange ==
    current_doc =>
        /\ \A k \in DOMAIN adjustments : adjustments[k] \in Range(k)
        /\ raised = None


\* load_images opened exactly the selected files that decode, in their order
\* and as new last tabs, and reported exactly the others.
LoadSkipsOnlyUndecodable ==
    handler = "load_images" =>
        LET opened == SelectSeq(paths, Decodable)
            n == Len(tabs_docs) - Len(opened)
        IN /\ n >= 0
           /\ \A i \in 1..Len(opened) :
                  tabs_docs[n + i] = ImageDocument(opened[i], Decode(opened[i]))
           /\ warnings = SelectSeq(paths, Undecodable)

\* bulk_export, given a folder, wrote every tab whose destination can be
\* written, and let no error escape.
ExportSkipsOnlyUnwritable ==
    (handler = "bulk_export" /\ folder # None) =>
        /\ raised = None
        /\ \A i \in 1..Len(tabs_docs) :
               i \notin unwritable =>
                   \E w \in 1..Len(written) : written[w] = Saved(i, tabs_docs[i])

\* A bulk_export changes no document.
ExportKeepsDocuments ==
    handler' = "bulk_export" =>
        UNCHANGED <<tabs_docs, path, pil, history, adjustments>>

\* C12: in a batch load or a batch export a failing item is reported and
\* skipped, every item that can succeed is loaded or saved wherever the
\* failing one sits, and a failed save changes no document.
BatchFailuresAreIsolated ==
    /\ [](LoadSkipsOnlyUndecodable /\ ExportSkipsOnlyUnwritable)
    /\ [][ExportKeepsDocuments]_vars

====
